---- MODULE Spec2Model ----
(***************************************************************************)
(* Model of the Python custom-runtime driver                               *)
(* (src/platform/functions/python-runtime/index.py).                       *)
(*                                                                         *)
(* The driver is one sequential program: it resolves the handler, then     *)
(* loops forever over fetch -> invoke -> respond.  The host control plane  *)
(* and the user handler are the environment: every answer they can give    *)
(* is a nondeterministic input of the step that consumes it.               *)
(*                                                                         *)
(* An HTTP call made with the requests library has three outcomes:         *)
(*   "ok"      the call returned a response with a success status,         *)
(*   "status"  the call returned a response with a non-success status      *)
(*             (requests does not raise for it unless raise_for_status     *)
(*             is called),                                                 *)
(*   "neterr"  the call raised (connection failure).                       *)
(***************************************************************************)
EXTENDS Integers, Sequences, FiniteSets, TLC

\* ---------------------------------------------------------------- bounds
\* Number of GET /runtime/invocation/next calls the driver issues.
MaxFetch == 3
\* Number of passes through the except branch of one response retry loop.
MaxFail == 2

\* ------------------------------------------------------- input alphabets
\* Bodies of a fetch response: one JSON text and one text that is not JSON.
EventBodies == {"{\"a\": 1}", "<html>"}

\* Values the handler may return.  "set()" stands for a Python object that
\* json.dumps cannot serialize.
HandlerResults == {"int:1", "str:1", "set()"}

HttpOutcomes == {"ok", "status", "neterr"}

\* What the handler writes while it runs: nothing, or one line to standard
\* output and one to standard error.
HandlerOutputs == {"quiet", "prints"}

\* Wall-clock readings of time.time() * 1000 (line 79).
Times == {2, 5}

\* The host's time limit: the answer to the n-th GET carries the deadline
\* n * TimeoutMs in the header Lambda-Runtime-Deadline-Ms.
TimeoutMs == 3

\* Ways handler resolution can go (lines 43-54).
ResolveOutcomes == {"ok", "file_missing", "load_raises", "attr_missing", "not_callable"}

\* Placeholder for "no value" in a string-valued field.
None == "None"

\* Placeholder for "no request id" in an id-valued field.
NoId == 0

\* The name `context` is unbound until the first fetch with a success status.
Unbound == [awsRequestId |-> -1]

\* Placeholder for a missing Lambda-Runtime-Deadline-Ms header.
NoDeadline == -1

\* The name `response` is unbound until the first requests.get that returns.
NoResponse == [status |-> "unbound", id |-> NoId, deadline |-> NoDeadline]

\* ------------------------------------------------------------------ JSON
\* json.dumps on the values of HandlerResults: TRUE iff it returns.
JsonSerializable(v) == v \in {"int:1", "str:1", "dict"}

\* json.dumps: the JSON text of a serializable value.
json_dumps(v) ==
    CASE v = "int:1" -> "1"
      [] v = "str:1" -> "\"1\""
      [] v = "dict"  -> "{\"a\": 1}"
      [] OTHER       -> "TypeError"

\* The values a JSON text can stand for.
JsonValues == {"int:1", "str:1", "dict"}

\* response.json(): TRUE iff the body parses.
JsonParses(text) == \E v \in JsonValues : json_dumps(v) = text

\* json.loads: the value a JSON text deserializes to.
json_loads(text) == CHOOSE v \in JsonValues : json_dumps(v) = text

\* ----------------------------------------------------------------- state
VARIABLES
    pc,          \* position of the program: "resolve", "fetch", "invoke",
                 \* "respond" or "exited"
    exitCode,    \* process exit status; -1 while the process runs
    uncaught,    \* TRUE iff the process ended with an uncaught exception
    context,     \* module-level name `context`
    event,       \* module-level name `event`
    result,      \* module-level name `result`
    http,        \* every HTTP call made so far, in order
    calls,       \* every handler invocation so far, in order
    reports,     \* every report_error call so far, in order
    sleeps,      \* time.sleep(0.5) calls in the current retry loop
    completed,   \* request ids whose retry loop ended with break, in order
    response,    \* module-level name `response`: the last answer to a GET
    sys_stdout,  \* what sys.stdout and sys.stderr are bound to: "original"
                 \* (the streams the process started with) or "buffer"
    stdout_buffer,  \* text held by stdout_buffer, as a sequence of lines
    stderr_buffer,  \* text held by stderr_buffer, as a sequence of lines
    terminal     \* text written to the streams the process started with

vars == <<pc, exitCode, uncaught, context, event, result, http, calls,
          reports, sleeps, completed, response, sys_stdout, stdout_buffer,
          stderr_buffer, terminal>>

\* The names that hold captured output and the answer to the last GET.
io == <<response, sys_stdout, stdout_buffer, stderr_buffer, terminal>>

\* One HTTP call: the endpoint, the request id in the path (None when the
\* path has none), the body sent (for a GET: the body received) and the
\* outcome.
Http(op, id, body, outcome) ==
    [op |-> op, id |-> id, body |-> body, outcome |-> outcome]

NextFetches == Len(SelectSeq(http, LAMBDA h : h.op = "next"))

\* ---------------------------------------------------------- report_error
\* A reporter that has lost the branch on `context`: every report goes to
\* the init-error endpoint.
ErrorEndpoint_AlwaysInit(ctx) ==
    [op |-> "init_error", id |-> NoId]

\* Lines 19-23: the endpoint is chosen by `context is None`.  ctx is <<>>
\* for the default None and <<c>> for a context c.
ErrorEndpoint(ctx) ==
    IF ctx = <<>>
    THEN [op |-> "init_error", id |-> NoId]
    ELSE [op |-> "invocation_error", id |-> ctx[1].awsRequestId]

\* Lines 24-28: the POST of the error record; errorMessage is str(ex).
ErrorPost(ex, ctx, outcome) ==
    Http(ErrorEndpoint(ctx).op, ErrorEndpoint(ctx).id, ex, outcome)

\* Lines 12-28: requests.post is not guarded, so report_error raises
\* exactly when the POST raises.
ReportRaises(outcome) == outcome = "neterr"

\* The bookkeeping of one report_error call; `at` is the position of its
\* POST in http.
Report(ex, ctx, outcome, at) ==
    [ex |-> ex, ctx |-> ctx, outcome |-> outcome, at |-> at]

Init ==
    /\ pc = "resolve"
    /\ exitCode = -1
    /\ uncaught = FALSE
    /\ context = Unbound
    /\ event = None
    /\ result = None
    /\ http = <<>>
    /\ calls = <<>>
    /\ reports = <<>>
    /\ sleeps = 0
    /\ completed = <<>>
    /\ response = NoResponse
    /\ sys_stdout = "original"
    /\ stdout_buffer = <<>>
    /\ stderr_buffer = <<>>
    /\ terminal = <<>>

\* Lines 43-54 without an exception: the loop is entered (lines 59-66).
ResolveOk ==
    /\ pc = "resolve"
    /\ sys_stdout' = "buffer"
    /\ stdout_buffer' = <<>>
    /\ stderr_buffer' = <<>>
    /\ pc' = "fetch"
    /\ UNCHANGED <<exitCode, uncaught, context, event, result, http, calls,
                   reports, sleeps, completed, response, terminal>>

\* A startup path that reports the failure but lacks the sys.exit(1): the
\* program falls through into the loop.
ResolveFail_NoExit ==
    /\ pc = "resolve"
    /\ \E why \in ResolveOutcomes \ {"ok"}, o \in HttpOutcomes :
        /\ http' = Append(http, ErrorPost(why, <<>>, o))
        /\ reports' = Append(reports, Report(why, <<>>, o, Len(http')))
        /\ IF ReportRaises(o)
           THEN pc' = "exited" /\ exitCode' = 1 /\ uncaught' = TRUE
           ELSE pc' = "fetch" /\ UNCHANGED <<exitCode, uncaught>>
    /\ UNCHANGED <<context, event, result, calls, sleeps, completed>>
    /\ UNCHANGED io

\* Lines 55-57: resolution raised; report_error(ex) and then sys.exit(1),
\* or the uncaught exception of report_error, which also ends the
\* interpreter with status 1.
ResolveFail ==
    /\ pc = "resolve"
    /\ \E why \in ResolveOutcomes \ {"ok"}, o \in HttpOutcomes :
        /\ http' = Append(http, ErrorPost(why, <<>>, o))
        /\ reports' = Append(reports, Report(why, <<>>, o, Len(http')))
        /\ uncaught' = ReportRaises(o)
    /\ pc' = "exited"
    /\ exitCode' = 1
    /\ UNCHANGED <<context, event, result, calls, sleeps, completed>>
    /\ UNCHANGED io

\* The deadline the host sends with request id rid.
DeadlineMs(rid) == rid * TimeoutMs

\* Line 69: an answer with a success status, as bound to `response`.
Answer(rid) == [status |-> "ok", id |-> rid, deadline |-> DeadlineMs(rid)]

\* Lines 77-81: the lambda stored in a context.  It reads the module-level
\* name `response` when it is called, whatever context it is stored in;
\* int(None) raises when the header is missing.
getRemainingTimeInMillis(ctx, now) ==
    IF response.deadline = NoDeadline
    THEN [raises |-> TRUE, value |-> 0]
    ELSE [raises |-> FALSE,
          value |-> IF response.deadline - now > 0 THEN response.deadline - now ELSE 0]

\* One line of captured text and the request id it was written for.
Line(rid, text) == [id |-> rid, text |-> text]

\* print(...): where the lines go depends on what sys.stdout is bound to.
PrintInto(buffer, lines) == IF sys_stdout = "buffer" THEN buffer \o lines ELSE buffer
PrintOnTerminal(lines) == IF sys_stdout = "original" THEN terminal \o lines ELSE terminal

\* What the handler writes to standard output and to standard error.
HandlerStdout(out, rid) == IF out = "prints" THEN <<Line(rid, "handler stdout")>> ELSE <<>>
HandlerStderr(out, rid) == IF out = "prints" THEN <<Line(rid, "handler stderr")>> ELSE <<>>

\* Lines 97-99: what a handler call that returns prints, line 97 and line 99
\* included.
ReturnedStdout(out, rid) ==
    <<Line(rid, "invoking handler")>> \o HandlerStdout(out, rid)
        \o <<Line(rid, "handler returned")>>

\* Lines 97-98: what a handler call that raises prints before it raises.
RaisedStdout(out, rid) ==
    <<Line(rid, "invoking handler")>> \o HandlerStdout(out, rid)

\* The request id the host puts in the headers of its next answer.  Request
\* ids are opaque and the host never reuses one, so the answer to the n-th
\* GET is given the id n.
FreshId == NextFetches + 1

\* The except branch of lines 91-93 and 100-102: report_error, and then
\* `continue` unless report_error raised, in which case nothing catches the
\* exception and the interpreter ends with status 1.
ReportAndContinue(ex, ctx, o) ==
    /\ reports' = Append(reports, Report(ex, ctx, o, Len(http')))
    /\ IF ReportRaises(o)
       THEN /\ pc' = "exited"
            /\ exitCode' = 1
            /\ uncaught' = TRUE
       ELSE /\ pc' = "fetch"
            /\ UNCHANGED <<exitCode, uncaught>>

\* Line 69 raises: requests.get could not reach the host.
FetchNetErr ==
    /\ pc = "fetch"
    /\ NextFetches < MaxFetch
    /\ \E o \in HttpOutcomes :
        /\ http' = http \o <<Http("next", NoId, None, "neterr"),
                             ErrorPost("ConnectionError", <<>>, o)>>
        /\ ReportAndContinue("ConnectionError", <<>>, o)
    /\ UNCHANGED <<context, event, result, calls, sleeps, completed>>
    /\ UNCHANGED io

\* Line 70 raises: the host answered with a non-success status.
FetchBadStatus ==
    /\ pc = "fetch"
    /\ NextFetches < MaxFetch
    /\ \E o \in HttpOutcomes :
        /\ http' = http \o <<Http("next", NoId, None, "status"),
                             ErrorPost("HTTPError", <<>>, o)>>
        /\ ReportAndContinue("HTTPError", <<>>, o)
    /\ response' = [status |-> "status", id |-> NoId, deadline |-> NoDeadline]
    /\ UNCHANGED <<context, event, result, calls, sleeps, completed>>
    /\ UNCHANGED <<sys_stdout, stdout_buffer, stderr_buffer, terminal>>

\* A fetch except branch that reports a body that does not parse under the
\* context it has just built.
FetchMalformed_WithContext ==
    /\ pc = "fetch"
    /\ NextFetches < MaxFetch
    /\ \E rid \in {FreshId}, body \in EventBodies, o \in HttpOutcomes :
        /\ ~JsonParses(body)
        /\ context' = [awsRequestId |-> rid]
        /\ http' = http \o <<Http("next", rid, body, "ok"),
                             ErrorPost("JSONDecodeError", <<context'>>, o)>>
        /\ ReportAndContinue("JSONDecodeError", <<context'>>, o)
        /\ response' = Answer(rid)
    /\ UNCHANGED <<event, result, calls, sleeps, completed>>
    /\ UNCHANGED <<sys_stdout, stdout_buffer, stderr_buffer, terminal>>

\* Line 89 raises: success status and headers, but the body is not JSON.
\* `context` was already rebound by lines 72-87; `event` keeps its value.
FetchMalformed ==
    /\ pc = "fetch"
    /\ NextFetches < MaxFetch
    /\ \E rid \in {FreshId}, body \in EventBodies, o \in HttpOutcomes :
        /\ ~JsonParses(body)
        /\ context' = [awsRequestId |-> rid]
        /\ http' = http \o <<Http("next", rid, body, "ok"),
                             ErrorPost("JSONDecodeError", <<>>, o)>>
        /\ ReportAndContinue("JSONDecodeError", <<>>, o)
        /\ response' = Answer(rid)
    /\ UNCHANGED <<event, result, calls, sleeps, completed>>
    /\ UNCHANGED <<sys_stdout, stdout_buffer, stderr_buffer, terminal>>

\* A fetch that builds the context once and keeps it: later invocations run
\* with the context of the first.
FetchOk_StaleContext ==
    /\ pc = "fetch"
    /\ NextFetches < MaxFetch
    /\ \E rid \in {FreshId}, body \in EventBodies :
        /\ JsonParses(body)
        /\ context' = IF context = Unbound THEN [awsRequestId |-> rid] ELSE context
        /\ event' = json_loads(body)
        /\ http' = Append(http, Http("next", rid, body, "ok"))
        /\ response' = Answer(rid)
    /\ pc' = "invoke"
    /\ UNCHANGED <<exitCode, uncaught, result, calls, reports, sleeps, completed>>
    /\ UNCHANGED <<sys_stdout, stdout_buffer, stderr_buffer, terminal>>

\* Lines 67-89 without an exception.
FetchOk ==
    /\ pc = "fetch"
    /\ NextFetches < MaxFetch
    /\ \E rid \in {FreshId}, body \in EventBodies :
        /\ JsonParses(body)
        /\ context' = [awsRequestId |-> rid]
        /\ event' = json_loads(body)
        /\ http' = Append(http, Http("next", rid, body, "ok"))
        /\ response' = Answer(rid)
    /\ pc' = "invoke"
    /\ UNCHANGED <<exitCode, uncaught, result, calls, reports, sleeps, completed>>
    /\ UNCHANGED <<sys_stdout, stdout_buffer, stderr_buffer, terminal>>

\* One handler invocation, as recorded in `calls`; `at` is the position in
\* http of the fetch that delivered its event.
Call(outcome, value) ==
    [id |-> context.awsRequestId, event |-> event, outcome |-> outcome,
     result |-> value, at |-> Len(http)]

\* Lines 96-110: the handler returned; the retry loop is entered.
InvokeReturns ==
    /\ pc = "invoke"
    /\ \E r \in HandlerResults :
        /\ result' = r
        /\ calls' = Append(calls, Call("returned", r))
    /\ \E out \in HandlerOutputs :
        LET rid == context.awsRequestId
            \* lines 105-106: stdout_buffer.getvalue(), stderr_buffer.getvalue()
            stdout == PrintInto(stdout_buffer, ReturnedStdout(out, rid))
            stderr == PrintInto(stderr_buffer, HandlerStderr(out, rid))
        IN  \* lines 109-110: print(stdout); print(stderr)
            /\ stdout_buffer' = PrintInto(stdout, stdout \o stderr)
            /\ stderr_buffer' = stderr
            /\ terminal' = PrintOnTerminal(ReturnedStdout(out, rid) \o HandlerStderr(out, rid)
                                            \o stdout \o stderr)
    /\ sleeps' = 0
    /\ pc' = "respond"
    /\ UNCHANGED <<exitCode, uncaught, context, event, http, reports, completed,
                   response, sys_stdout>>

\* A handler except branch that calls report_error(ex) without the context.
InvokeRaises_NoContext ==
    /\ pc = "invoke"
    /\ calls' = Append(calls, Call("raised", None))
    /\ \E o \in HttpOutcomes :
        /\ http' = Append(http, ErrorPost("HandlerError", <<>>, o))
        /\ ReportAndContinue("HandlerError", <<>>, o)
    /\ \E out \in HandlerOutputs :
        LET rid == context.awsRequestId
        IN  /\ stdout_buffer' = PrintInto(stdout_buffer, RaisedStdout(out, rid))
            /\ stderr_buffer' = PrintInto(stderr_buffer, HandlerStderr(out, rid))
            /\ terminal' = PrintOnTerminal(RaisedStdout(out, rid) \o HandlerStderr(out, rid))
    /\ UNCHANGED <<context, event, result, sleeps, completed, response, sys_stdout>>

\* Lines 96-102: the handler raised; report_error(ex, context), continue.
InvokeRaises ==
    /\ pc = "invoke"
    /\ calls' = Append(calls, Call("raised", None))
    /\ \E o \in HttpOutcomes :
        /\ http' = Append(http, ErrorPost("HandlerError", <<context>>, o))
        /\ ReportAndContinue("HandlerError", <<context>>, o)
    /\ \E out \in HandlerOutputs :
        LET rid == context.awsRequestId
        IN  /\ stdout_buffer' = PrintInto(stdout_buffer, RaisedStdout(out, rid))
            /\ stderr_buffer' = PrintInto(stderr_buffer, HandlerStderr(out, rid))
            /\ terminal' = PrintOnTerminal(RaisedStdout(out, rid) \o HandlerStderr(out, rid))
    /\ UNCHANGED <<context, event, result, sleeps, completed, response, sys_stdout>>

\* The response POST of lines 115-119.
ResponsePost(ctx, value, outcome) ==
    Http("response", ctx.awsRequestId, json_dumps(value), outcome)

\* Line 120: TRUE iff the attempt leaves the retry loop.  requests.post
\* returns for every HTTP status; only an exception keeps the loop going.
Breaks(outcome) == outcome # "neterr"

\* An except branch that gives the result up after the sleep and goes on
\* with the next invocation.
RespondRaises_GivesUp ==
    /\ pc = "respond"
    /\ sleeps < MaxFail
    /\ IF JsonSerializable(result)
       THEN \E o \in HttpOutcomes :
              /\ ~Breaks(o)
              /\ http' = Append(http, ResponsePost(context, result, o))
       ELSE UNCHANGED http
    /\ sleeps' = sleeps + 1
    /\ pc' = "fetch"
    /\ UNCHANGED <<exitCode, uncaught, context, event, result, calls,
                   reports, completed>>
    /\ UNCHANGED io

\* A retry that starts over from the handler call instead of from the POST.
RespondRaises_Reinvoke ==
    /\ pc = "respond"
    /\ sleeps < MaxFail
    /\ IF JsonSerializable(result)
       THEN \E o \in HttpOutcomes :
              /\ ~Breaks(o)
              /\ http' = Append(http, ResponsePost(context, result, o))
       ELSE UNCHANGED http
    /\ sleeps' = sleeps + 1
    /\ pc' = "invoke"
    /\ UNCHANGED <<exitCode, uncaught, context, event, result, calls,
                   reports, completed>>
    /\ UNCHANGED io

\* Lines 114-123, one attempt that raises: json.dumps raises before any
\* request is made, or requests.post raises; sleep and try again.
RespondRaises ==
    /\ pc = "respond"
    /\ sleeps < MaxFail
    /\ IF JsonSerializable(result)
       THEN \E o \in HttpOutcomes :
              /\ ~Breaks(o)
              /\ http' = Append(http, ResponsePost(context, result, o))
       ELSE UNCHANGED http
    /\ sleeps' = sleeps + 1
    /\ UNCHANGED <<pc, exitCode, uncaught, context, event, result, calls,
                   reports, completed>>
    /\ UNCHANGED io

\* Lines 114-129, one attempt that does not raise: break, clear the
\* buffers, back to the top of the loop.
RespondBreaks ==
    /\ pc = "respond"
    /\ JsonSerializable(result)
    /\ \E o \in HttpOutcomes :
        /\ Breaks(o)
        /\ http' = Append(http, ResponsePost(context, result, o))
    /\ completed' = Append(completed, context.awsRequestId)
    \* lines 126-129: truncate(0) and seek(0) on both buffers
    /\ stdout_buffer' = <<>>
    /\ stderr_buffer' = <<>>
    /\ pc' = "fetch"
    /\ UNCHANGED <<exitCode, uncaught, context, event, result, calls,
                   reports, sleeps, response, sys_stdout, terminal>>

Next ==
    \/ ResolveOk
    \/ ResolveFail
    \/ FetchNetErr
    \/ FetchBadStatus
    \/ FetchMalformed
    \/ FetchOk
    \/ InvokeReturns
    \/ InvokeRaises
    \/ RespondRaises
    \/ RespondBreaks

Spec == Init /\ [][Next]_vars

\* ------------------------------------------------------- reading the log
\* Positions of http that hold a call to the given endpoint.
At(op) == {i \in 1..Len(http) : http[i].op = op}

\* A fetch that yielded a request id: the host answered with a success
\* status, whose headers carry the id.
Yielding(i) == http[i].op = "next" /\ http[i].outcome = "ok"

\* A fetch that produced an invocation: it yielded an id and a JSON body.
Fetched(i) == Yielding(i) /\ JsonParses(http[i].body)

\* The fetch the driver issued next after position i, if it has issued one.
LaterFetches(i) == {j \in At("next") : j > i}
RECURSIVE Minimum(_), Maximum(_)
Minimum(S) ==
    LET m == CHOOSE n \in S : TRUE
    IN  IF S = {m} THEN m
        ELSE LET r == Minimum(S \ {m}) IN IF m <= r THEN m ELSE r
Maximum(S) ==
    LET m == CHOOSE n \in S : TRUE
    IN  IF S = {m} THEN m
        ELSE LET r == Maximum(S \ {m}) IN IF m >= r THEN m ELSE r

\* A POST the host accepted: it arrived and was answered with success.
Delivered(k) == http[k].outcome = "ok"

\* Delivered terminal actions for the request id of fetch i, among the
\* positions of S.
Terminals(i, S) ==
    {k \in S : /\ http[k].op \in {"response", "invocation_error"}
               /\ http[k].id = http[i].id
               /\ Delivered(k)}

\* The response POSTs made for a request id, as positions in order.
ResponsesFor(rid) == {k \in At("response") : http[k].id = rid}

\* The driver is in the retry loop of call c.
Responding(c) == pc = "respond" /\ c = Len(calls)

\* The last position up to k whose fetch produced an invocation; 0 if none.
RECURSIVE LastFetched(_)
LastFetched(k) ==
    IF k = 0 THEN 0 ELSE IF Fetched(k) THEN k ELSE LastFetched(k - 1)

\* The last handler call among the first c whose fetch lies before position
\* k; 0 if none.
RECURSIVE LastCallBefore(_, _)
LastCallBefore(k, c) ==
    IF c = 0 THEN 0 ELSE IF calls[c].at < k THEN c ELSE LastCallBefore(k, c - 1)

\* The position of the fetch that handed out request id rid.
FetchOf(rid) == CHOOSE i \in 1..Len(http) : http[i].op = "next" /\ http[i].id = rid

\* No HTTP call has been made since position i.
JustAfter(i) == Len(http) = i

\* ---------------------------------------------------------------- claims

\* C1: for every fetch that yields a request id, exactly one delivered
\* response POST or delivered invocation-error POST for that id lies
\* between it and the next fetch the driver issues.
C1_ExactlyOneTerminalBeforeNextFetch ==
    \A i \in 1..Len(http) :
        (Yielding(i) /\ LaterFetches(i) # {}) =>
            Cardinality(Terminals(i, (i + 1)..(Minimum(LaterFetches(i)) - 1))) = 1

\* C2: for every handler invocation that returned a JSON-serializable value
\* R, a response POST for the request id fetched with its event, whose body
\* deserializes to R, is delivered.  The driver posts a result only while it
\* is in the retry loop of that invocation, so the delivery has to be there
\* by the time the driver has left that loop.
C2_ReturnedResultDelivered ==
    \A c \in 1..Len(calls) :
        (/\ calls[c].outcome = "returned"
         /\ JsonSerializable(calls[c].result)
         /\ ~Responding(c)) =>
            \E k \in ResponsesFor(http[calls[c].at].id) :
                /\ Delivered(k)
                /\ json_loads(http[k].body) = calls[c].result

\* C3: for every handler invocation that raised, exactly one
\* invocation-error POST is made for its request id, it is delivered, and
\* right after it the driver is about to fetch again: the process has not
\* terminated.
C3_RaisedReportedOnceAndLoopGoesOn ==
    \A r \in 1..Len(reports) :
        reports[r].ex = "HandlerError" =>
            /\ Cardinality({k \in At("invocation_error") :
                              http[k].id = http[reports[r].at].id}) = 1
            /\ JustAfter(reports[r].at) => (pc = "fetch" /\ exitCode = -1)

\* C4: when the retry loop for a request id is over, its response POSTs are
\* N failed attempts followed by one accepted attempt: N + 1 calls, one
\* sleep after each failed attempt, success exactly once and last.
C4_RetryMakesNPlusOneCalls ==
    \A n \in 1..Len(completed) :
        LET posts == ResponsesFor(completed[n])
            failed == {k \in posts : ~Delivered(k)}
        IN  /\ Cardinality(posts) = Cardinality(failed) + 1
            /\ Delivered(Maximum(posts))
            /\ (n = Len(completed) /\ calls[Len(calls)].id = completed[n])
                  => sleeps = Cardinality(failed)

\* C5: a response POST answered with a non-success status is a failed
\* delivery: right after it the driver is still in the retry loop.
C5_NonSuccessStatusIsRetried ==
    \A k \in At("response") :
        (http[k].outcome = "status" /\ JustAfter(k)) => pc = "respond"

\* C6: when handler resolution fails, the process makes exactly one
\* init-error report, exits with a non-zero status, and no fetch, handler
\* invocation, response POST or invocation-error POST ever occurs.
ResolutionFailed ==
    reports # <<>> /\ reports[1].ex \in ResolveOutcomes \ {"ok"}

LoopEntered == pc # "resolve" /\ ~ResolutionFailed

C7_ReporterNeverRaises ==
    LoopEntered => (pc # "exited" /\ ~uncaught)

\* C8: a failed fetch is followed by one error report to the endpoint that
\* takes no invocation id, the handler is not invoked for it, and right
\* after the report the driver is fetching again: the loop has not exited.
FailedFetch(i) == http[i].op = "next" /\ ~Fetched(i)

C8_FetchFailureReportedAndRetried ==
    \A i \in 1..Len(http) :
        FailedFetch(i) =>
            /\ http[i + 1].op = "init_error"
            /\ \A c \in 1..Len(calls) : calls[c].at # i
            /\ JustAfter(i + 1) => (pc = "fetch" /\ exitCode = -1)

\* C9: every error report is routed by the invocation it is given: with
\* one, to the invocation-error endpoint of exactly that request id; with
\* none, to the init-error endpoint.  An error raised by the handler is
\* reported to the invocation-error endpoint of the request id its event
\* was fetched with.
C9_ErrorReportsRoutedByRequestId ==
    \A r \in 1..Len(reports) :
        LET post == http[reports[r].at]
            fetch == LastFetched(reports[r].at)
        IN  /\ post.op \in {"init_error", "invocation_error"}
            /\ reports[r].ctx = <<>> =>
                  (post.op = "init_error" /\ post.id = NoId)
            /\ reports[r].ctx # <<>> =>
                  (post.op = "invocation_error"
                     /\ post.id = reports[r].ctx[1].awsRequestId)
            /\ reports[r].ex = "HandlerError" =>
                  /\ fetch # 0
                  /\ post.op = "invocation_error"
                  /\ post.id = http[fetch].id

C9_Witness ==
    /\ \E r \in 1..Len(reports) :
          reports[r].ex = "HandlerError" /\ http[reports[r].at].id = 2
    /\ \E r \in 1..Len(reports) : reports[r].ex = "JSONDecodeError"
    /\ Len(calls) >= 2

\* C10: every response POST, first attempt or retry, carries the result of
\* the latest handler invocation and targets the request id that invocation
\* was fetched with; response POSTs follow the order of the fetches.
C10_ResponsesTargetTheirOwnRequest ==
    /\ \A k \in 1..Len(http) :
          http[k].op = "response" =>
              LET fetch == LastFetched(k)
                  c == LastCallBefore(k, Len(calls))
              IN  /\ fetch # 0 /\ c # 0
                  /\ http[k].id = http[fetch].id
                  /\ calls[c].at = fetch
                  /\ calls[c].outcome = "returned"
                  /\ http[k].body = json_dumps(calls[c].result)
    /\ LET posts == SelectSeq(http, LAMBDA h : h.op = "response")
       IN  \A n \in 1..(Len(posts) - 1) :
               FetchOf(posts[n].id) <= FetchOf(posts[n + 1].id)

C10_Witness ==
    \E k1, k2, k3 \in At("response") :
        /\ k1 < k2 /\ k2 < k3
        /\ http[k1].id = http[k2].id
        /\ http[k1].outcome = "neterr"
        /\ http[k3].id # http[k2].id
        /\ http[k3].body # http[k2].body

\* C11: at most one invocation is in flight: whenever the driver issues a
\* fetch, every invocation fetched before it is over, that is, its handler
\* has been called and, if the handler returned, a response for its request
\* id has been delivered.
C11_NoFetchWhileInFlight ==
    \A j \in At("next") :
        \A i \in 1..(j - 1) :
            Fetched(i) =>
                \E c \in 1..Len(calls) :
                    /\ calls[c].at = i
                    /\ calls[c].outcome = "returned" =>
                          \E k \in ResponsesFor(http[i].id) : k < j /\ Delivered(k)

\* The lines a buffer holds that were written for another request than rid.
Foreign(buffer, rid) == {n \in 1..Len(buffer) : buffer[n].id # rid}

\* C12: whenever the handler is about to be invoked, neither capture buffer
\* holds text written during an earlier invocation.
C12_BuffersResetBetweenInvocations ==
    pc = "invoke" =>
        /\ Foreign(stdout_buffer, context.awsRequestId) = {}
        /\ Foreign(stderr_buffer, context.awsRequestId) = {}

\* C13: once the retry loop of an invocation is over, the text captured
\* during that invocation has been written to the streams the process
\* started with.
C13_CapturedOutputForwarded ==
    \A n \in 1..Len(completed) :
        \E m \in 1..Len(terminal) : terminal[m].id = completed[n]

\* C14: the step that reads the captured text leaves both buffers empty, so
\* a second read right after it returns two empty strings.
C14_ReadLeavesBuffersEmpty ==
    (pc = "respond" /\ sleeps = 0) =>
        (stdout_buffer = <<>> /\ stderr_buffer = <<>>)

\* The handler calls made for the invocation fetched at position i.
CallsFor(i) == {c \in 1..Len(calls) : calls[c].at = i}

\* C15: the handler is invoked exactly once per fetched invocation, and only
\* for fetched invocations; retries of the response POST add no handler
\* call, an invocation whose handler raised is not invoked again, and no
\* response POST is made for an invocation whose handler raised.
C15_HandlerInvokedExactlyOnce ==
    /\ \A i \in 1..Len(http) :
          Fetched(i) =>
              Cardinality(CallsFor(i)) =
                  IF pc = "invoke" /\ i = Len(http) THEN 0 ELSE 1
    /\ \A c \in 1..Len(calls) :
          /\ Fetched(calls[c].at)
          /\ calls[c].outcome = "raised" =>
                ResponsesFor(http[calls[c].at].id) = {}

C15_Witness ==
    \E c1, c2 \in 1..Len(calls) :
        /\ calls[c1].outcome = "returned"
        /\ Cardinality(ResponsesFor(http[calls[c1].at].id)) >= 2
        /\ calls[c2].outcome = "raised"
        /\ Len(reports) >= 1
        /\ reports[Len(reports)].ex = "HandlerError"
        /\ LaterFetches(reports[Len(reports)].at) # {}

RemainingUntil(deadline, now) == IF deadline - now > 0 THEN deadline - now ELSE 0

\* C17: the remaining-time function of every context that was handed to the
\* handler returns, whenever it is called, max(deadline - now, 0) for the
\* deadline delivered with that context's own invocation: it does not
\* raise, is not negative and does not depend on later fetches.
C17_RemainingTimeUsesOwnDeadline ==
    \A c \in 1..Len(calls) :
        \A now \in Times :
            LET rid == http[calls[c].at].id
                got == getRemainingTimeInMillis([awsRequestId |-> rid], now)
            IN  /\ ~got.raises
                /\ got.value >= 0
                /\ got.value = RemainingUntil(DeadlineMs(rid), now)

\* The HTTP calls a step adds to the log.
Added == SubSeq(http', Len(http) + 1, Len(http'))

\* C18: the retry loop is left only by a response POST call that returned
\* without raising.  Until then every step stays in the loop and adds at
\* most one response POST that raised: no fetch, no error report, no handler
\* call, no exit.  With a result that json.dumps cannot serialize no step
\* ever leaves the loop and no HTTP call is made.
C18_RetryLoopExitsOnlyOnReturnedPost ==
    [][pc = "respond" =>
          /\ pc' \in {"respond", "fetch"}
          /\ exitCode' = exitCode
          /\ reports' = reports
          /\ calls' = calls
          /\ \A n \in 1..Len(Added) :
                Added[n].op = "response" /\ Added[n].id = context.awsRequestId
          /\ pc' = "fetch" =>
                (Len(Added) = 1 /\ Added[1].outcome # "neterr")
          /\ pc' = "respond" =>
                (Len(Added) <= 1 /\ \A n \in 1..Len(Added) : Added[n].outcome = "neterr")
          /\ ~JsonSerializable(result) => (pc' = "respond" /\ http' = http)
      ]_vars

C18_Witness ==
    /\ pc = "respond"
    /\ ~JsonSerializable(result)
    /\ sleeps >= 2
    /\ ResponsesFor(context.awsRequestId) = {}

\* A fetch answered with a success status and a request id, whose body does
\* not parse.
MalformedFetch(i) == Yielding(i) /\ ~JsonParses(http[i].body)

\* C19: after a fetch with a success status, a request id and a body that is
\* not JSON, the handler is not invoked, the failure is reported to the
\* init-error endpoint, and the fetched request id gets no response POST and
\* no invocation-error POST.
C19_MalformedBodyReportedAsInitError ==
    \A i \in 1..Len(http) :
        MalformedFetch(i) =>
            /\ CallsFor(i) = {}
            /\ http[i + 1].op = "init_error"
            /\ http[i + 1].body = "JSONDecodeError"
            /\ \A k \in 1..Len(http) :
                  http[k].op \in {"response", "invocation_error"}
                      => http[k].id # http[i].id

C19_Witness ==
    \E i \in 1..Len(http) :
        /\ MalformedFetch(i)
        /\ http[i + 1].outcome = "ok"
        /\ LaterFetches(i) # {}
        /\ \E c \in 1..Len(calls) : calls[c].at > i

====
